---- MODULE Spec2Model ----
(***************************************************************************)
(* Model of ModelVersionManager (src/ml/models/version_manager.py): the    *)
(* versioned artifact store, the per-type "current" symlink, the retention *)
(* sweep and the rollback operations.                                      *)
(*                                                                         *)
(* File names are sequences of one-character tokens, so that the glob      *)
(* pattern "<type>_*.joblib" and stem.split('_', 1)[1] are computed on     *)
(* names the way the code computes them.                                   *)
(***************************************************************************)
EXTENDS Integers, Sequences, FiniteSets, TLC

VARIABLES
    versions_dir,    \* versions/<stem>.joblib        : stem -> [content, mtime]
    metadata_dir,    \* metadata/<stem>_metadata.json : stem -> record
    current,         \* <type>_current.joblib symlink : type -> stem, or NoLink
    now,             \* the wall clock, in ticks
    max_versions,    \* constructor argument
    retention_days,  \* constructor argument
    ret,             \* the last completed call: its arguments and its result
    pc,              \* position of the stepwise writer (SpecPointer), of the two callers (SpecRace)
    wr,              \* the stepwise writer's call (SpecPointer), the two calls (SpecRace)
    seq,             \* what the saves made so far returned (SpecRetention, SpecCollide, SpecDelete)
    calls            \* number of completed calls that may write

vars == <<versions_dir, metadata_dir, current, now, max_versions, retention_days,
          ret, pc, wr, seq, calls>>

----------------------------------------------------------------------------
(* Bounds of the model *)

MaxTime == 3            \* last tick of the clock in Spec and SpecPointer
TicksPerSec == 2        \* created_at is finer than the version id's one second
SecsPerDay == 2         \* a day, scaled down
MaxRetentionDays == 1   \* retention_days ranges over 0..MaxRetentionDays
MaxMaxVersions == 2     \* max_versions ranges over 0..MaxMaxVersions
MaxCalls == 3           \* calls made in a behaviour of Spec and SpecPointer
RunLength == 5          \* saves in the run of SpecRetention
MaxLockedCalls == 3     \* calls made in a behaviour of SpecLocked
MaxCrashCalls == 3      \* calls made in a behaviour of SpecCrash
MaxCollideSaves == 3    \* saves made in a behaviour of SpecCollide
MaxRaceSaves == 3       \* saves made before the two calls of SpecRace start
MaxDeleteCalls == 3     \* calls made in a behaviour of SpecDelete
MaxMetricTime == 4      \* last tick of the clock in SpecMetrics
MaxMetricCalls == 4     \* writing calls made in a behaviour of SpecMetrics
MaxScore == 2           \* the highest value of a metric; the lowest is 0
MaxThreshold == 1       \* degradation_threshold ranges over 0..MaxThreshold

----------------------------------------------------------------------------
(* Values *)

Sep == "_"

\* model_type is an open string: a plain one, and one holding the separator
\* whose prefix is the other one
TypeA == <<"a">>
TypeAB == <<"a", "_", "b">>
ModelTypes == {TypeA, TypeAB}

Artifacts == {"A1", "A2"}
Partial == "partial"            \* a truncated artifact file: joblib.load raises

NoneDict == [none |-> TRUE]     \* Python None passed for an optional dict
EmptyDict == <<>>               \* Python {}
Corrupt == [corrupt |-> TRUE]   \* a truncated JSON file: json.load raises
NoLink == <<"nolink">>          \* the symlink does not exist
NoneId == <<"None">>            \* version_id=None
Dash == <<"-">>                 \* filler for an unused field of ret

\* what a trainer hands to save_model: an artifact and its metadata
Payloads == {[model |-> "A1", metadata |-> NoneDict],
             [model |-> "A2", metadata |-> [source |-> "trainer"]]}
Accuracy == "accuracy"
F1Score == "f1"
\* performance metrics a caller reports
MetricDicts == {(Accuracy :> 0), (Accuracy :> MaxScore), (F1Score :> 1)}
MetricNames == {Accuracy, F1Score}

Digits == <<"0", "1", "2", "3", "4", "5", "6", "7", "8", "9">>
Digit(n) == Digits[n + 1]

Sec(t) == t \div TicksPerSec
Day(t) == Sec(t) \div SecsPerDay

\* Faulty variant of the id: it also tells the ticks of one second apart
_generate_version_id_fine(t) == <<Digit(Day(t)), Sep, Digit(t % (TicksPerSec * SecsPerDay))>>

\* datetime.now().strftime("%Y%m%d_%H%M%S"): date, separator, time of day
_generate_version_id(t) == <<Digit(Day(t)), Sep, Digit(Sec(t) % SecsPerDay)>>

GeneratedIds == {_generate_version_id(t) : t \in 0..MaxTime}
GeneratedMetricIds == {_generate_version_id(t) : t \in 0..MaxMetricTime}
\* ids a caller may pass: generated ones, and strings that, appended to TypeA,
\* spell a file of TypeAB
CallerIds == GeneratedIds \cup {<<"b", Sep>> \o v : v \in GeneratedIds}

\* f"{model_type}_{version_id}": the stem of the artifact file and of the
\* metadata file (which adds the fixed suffix _metadata.json in its own directory)
_get_model_path(model_type, version_id) == model_type \o <<Sep>> \o version_id
_get_metadata_path(model_type, version_id) == model_type \o <<Sep>> \o version_id

\* stem.split('_', 1)[1]
FirstSep(s) == CHOOSE i \in 1..Len(s) : s[i] = Sep /\ \A j \in 1..(i - 1) : s[j] # Sep
SplitFirst(s) == SubSeq(s, FirstSep(s) + 1, Len(s))

\* versions_dir.glob(f"{model_type}_*.joblib")
GlobMatch(model_type, stem) ==
    /\ Len(stem) >= Len(model_type) + 1
    /\ SubSeq(stem, 1, Len(model_type) + 1) = model_type \o <<Sep>>

\* dict without one key / with one key set
Without(f, k) == [x \in DOMAIN f \ {k} |-> f[x]]
With(f, k, v) == [x \in DOMAIN f \cup {k} |-> IF x = k THEN v ELSE f[x]]

OrEmpty(d) == IF d = NoneDict THEN EmptyDict ELSE d

----------------------------------------------------------------------------
(* The symlink *)

\* current_path.exists(): follows the link, so a dangling link does not exist
CurrentExists(vd, cur, model_type) ==
    cur[model_type] # NoLink /\ cur[model_type] \in DOMAIN vd

\* current_path.is_symlink()
CurrentIsSymlink(cur, model_type) == cur[model_type] # NoLink

----------------------------------------------------------------------------
(* list_versions *)

BasicMetadata(vd, model_type, stem) ==
    [model_type |-> model_type,
     version_id |-> SplitFirst(stem),
     created_at |-> vd[stem].mtime,
     model_path |-> stem,
     performance_metrics |-> EmptyDict,
     metadata |-> EmptyDict]

ModelFiles(vd, model_type) == {s \in DOMAIN vd : GlobMatch(model_type, s)}

\* the record list_versions appends for one globbed file
VersionRecord(vd, md, model_type, stem) ==
    LET mp == _get_metadata_path(model_type, SplitFirst(stem))
    IN IF mp \in DOMAIN md THEN md[mp] ELSE BasicMetadata(vd, model_type, stem)

\* a file whose metadata file cannot be parsed makes the whole call raise
ListRaises(vd, md, model_type) ==
    \E s \in ModelFiles(vd, model_type) :
        LET mp == _get_metadata_path(model_type, SplitFirst(s))
        IN mp \in DOMAIN md /\ md[mp] = Corrupt

\* versions.sort(key=created_at, reverse=True): a stable sort of the glob
\* order, and the glob order is the directory's: every order of equal keys
RECURSIVE SortedLists(_)
SortedLists(S) ==
    IF S = {} THEN {<<>>}
    ELSE LET top == {r \in S : \A q \in S : q.created_at <= r.created_at}
         IN UNION {{<<r>> \o rest : rest \in SortedLists(S \ {r})} : r \in top}

\* the lists list_versions may return
list_versions(vd, md, model_type) ==
    IF ListRaises(vd, md, model_type) THEN {<<>>}
    ELSE SortedLists({VersionRecord(vd, md, model_type, s) : s \in ModelFiles(vd, model_type)})

----------------------------------------------------------------------------
(* delete_version and the retention sweep, as functions of the two stores *)

\* Faulty variants of the guard: no guard at all, and the link's target compared
\* with the bare version id instead of the version's path
IsCurrentVersionNoGuard(vd, cur, model_type, version_id) == FALSE
IsCurrentVersionById(vd, cur, model_type, version_id) ==
    /\ CurrentExists(vd, cur, model_type)
    /\ cur[model_type] = version_id

\* "Check if this is the current version"
IsCurrentVersion(vd, cur, model_type, version_id) ==
    /\ CurrentExists(vd, cur, model_type)
    /\ cur[model_type] = _get_model_path(model_type, version_id)

\* Faulty variant of the delete: a version without a metadata file is left alone
DeleteFilesPaired(fs, cur, model_type, version_id) ==
    IF IsCurrentVersion(fs.v, cur, model_type, version_id) THEN fs
    ELSE IF _get_metadata_path(model_type, version_id) \notin DOMAIN fs.m THEN fs
    ELSE [v |-> Without(fs.v, _get_model_path(model_type, version_id)),
          m |-> Without(fs.m, _get_metadata_path(model_type, version_id))]

\* the stores after delete_version(model_type, version_id)
DeleteFiles(fs, cur, model_type, version_id) ==
    IF IsCurrentVersion(fs.v, cur, model_type, version_id) THEN fs
    ELSE [v |-> Without(fs.v, _get_model_path(model_type, version_id)),
          m |-> Without(fs.m, _get_metadata_path(model_type, version_id))]

RECURSIVE DeleteAll(_, _, _, _)
DeleteAll(fs, cur, model_type, ids) ==
    IF ids = <<>> THEN fs
    ELSE DeleteAll(DeleteFiles(fs, cur, model_type, Head(ids)), cur, model_type, Tail(ids))

Ids(versions) == [i \in 1..Len(versions) |-> versions[i].version_id]

\* Faulty variant of the count rule: nothing is ever beyond the cap
BeyondMaxNever(versions, maxv) == <<>>

\* versions[self.max_versions:] when len(versions) > self.max_versions
BeyondMax(versions, maxv) ==
    IF Len(versions) > maxv THEN SubSeq(versions, maxv + 1, Len(versions)) ELSE <<>>

\* created_at < datetime.now() - timedelta(days=self.retention_days)
RECURSIVE OlderThan(_, _)
OlderThan(versions, cutoff) ==
    IF versions = <<>> THEN <<>>
    ELSE (IF Head(versions).created_at < cutoff THEN <<Head(versions)>> ELSE <<>>)
         \o OlderThan(Tail(versions), cutoff)

CutoffDate(t, days) == t - days * SecsPerDay * TicksPerSec

\* the stores after _cleanup_old_versions ran at time t on the list `versions`
_cleanup_old_versions(fs, cur, model_type, versions, maxv, days, t) ==
    LET afterCount == DeleteAll(fs, cur, model_type, Ids(BeyondMax(versions, maxv)))
    IN DeleteAll(afterCount, cur, model_type, Ids(OlderThan(versions, CutoffDate(t, days))))

----------------------------------------------------------------------------
(* The calls, each as one step *)

\* ret: the call the last step completed and its outcome
Return(op, model_type, version_id, result) ==
    [op |-> op, model_type |-> model_type, version_id |-> version_id, result |-> result]

Idle == Return("idle", Dash, Dash, "-")

Config == <<max_versions, retention_days>>
Writer == <<pc, wr>>
\* one more call, of a bounded number, by the one sequential caller
Called == calls < MaxCalls /\ calls' = calls + 1 /\ UNCHANGED <<Writer, seq>>

\* Faulty variants of the pointer update: the link is left as it was, and the
\* link is removed and not made again
SwapPointerStale(cur, model_type, model_path) == cur
SwapPointerUnlinked(cur, model_type, model_path) == [cur EXCEPT ![model_type] = NoLink]

\* unlink the symlink if there, then symlink_to the version: seen as one step
SwapPointer(cur, model_type, model_path) == [cur EXCEPT ![model_type] = model_path]

\* the metadata record save_model writes
ModelMetadata(model_type, version_id, t, metadata, performance_metrics) ==
    [model_type |-> model_type,
     version_id |-> version_id,
     created_at |-> t,
     model_path |-> _get_model_path(model_type, version_id),
     performance_metrics |-> OrEmpty(performance_metrics),
     metadata |-> OrEmpty(metadata)]

\* what the failed step of a save leaves on disk
SaveFaults == {"none", "dump_nofile", "dump_partial", "json_nofile", "json_partial"}

\* save_model; dt is the time that passes between stamping created_at and the
\* sweep reading the clock
SaveModel(model_type, model, metadata, performance_metrics, fault, dt) ==
    LET version_id == _generate_version_id(now)
        model_path == _get_model_path(model_type, version_id)
        metadata_path == _get_metadata_path(model_type, version_id)
        vd1 == With(versions_dir, model_path, [content |-> model, mtime |-> now])
        md1 == With(metadata_dir, metadata_path,
                    ModelMetadata(model_type, version_id, now, metadata, performance_metrics))
        cur1 == SwapPointer(current, model_type, model_path)
        raised == Return("save_model", model_type, version_id, "raised")
    IN
    /\ CASE fault = "dump_nofile" ->
              /\ UNCHANGED <<versions_dir, metadata_dir, current, now>>
              /\ ret' = raised
         [] fault = "dump_partial" ->
              /\ versions_dir' = With(versions_dir, model_path,
                                      [content |-> Partial, mtime |-> now])
              /\ UNCHANGED <<metadata_dir, current, now>>
              /\ ret' = raised
         [] fault = "json_nofile" ->
              /\ versions_dir' = vd1
              /\ UNCHANGED <<metadata_dir, current, now>>
              /\ ret' = raised
         [] fault = "json_partial" ->
              /\ versions_dir' = vd1
              /\ metadata_dir' = With(metadata_dir, metadata_path, Corrupt)
              /\ UNCHANGED <<current, now>>
              /\ ret' = raised
         [] OTHER ->
              \E versions \in list_versions(vd1, md1, model_type) :
                  LET fs == _cleanup_old_versions([v |-> vd1, m |-> md1], cur1, model_type,
                                versions, max_versions, retention_days, now + dt)
                  IN /\ versions_dir' = fs.v
                     /\ metadata_dir' = fs.m
                     /\ current' = cur1
                     /\ now' = now + dt
                     /\ ret' = Return("save_model", model_type, version_id, "ok")
    /\ UNCHANGED Config

\* Faulty variant of load_model's outcome: a missing version is not raised but
\* handed back as an empty result
LoadedQuiet(result, model, metadata) ==
    [result |-> IF result = "NotFound" THEN "ok" ELSE result,
     model |-> model, metadata |-> metadata]

\* what load_model hands back: the outcome, and on success the (model, metadata) pair
Loaded(result, model, metadata) == [result |-> result, model |-> model, metadata |-> metadata]

\* load_model
LoadResult(vd, md, cur, model_type, version_id) ==
    IF version_id = NoneId /\ ~CurrentExists(vd, cur, model_type)
        THEN Loaded("NotFound", "-", EmptyDict)
    ELSE IF version_id # NoneId /\ _get_model_path(model_type, version_id) \notin DOMAIN vd
        THEN Loaded("NotFound", "-", EmptyDict)
    ELSE
        LET model_path == IF version_id = NoneId THEN cur[model_type]
                          ELSE _get_model_path(model_type, version_id)
            vid == IF version_id = NoneId THEN SplitFirst(model_path) ELSE version_id
            metadata_path == _get_metadata_path(model_type, vid)
        IN IF vd[model_path].content = Partial THEN Loaded("raised", "-", EmptyDict)
           ELSE IF metadata_path \notin DOMAIN md
               THEN Loaded("ok", vd[model_path].content, EmptyDict)
           ELSE IF md[metadata_path] = Corrupt THEN Loaded("raised", "-", EmptyDict)
           ELSE Loaded("ok", vd[model_path].content, md[metadata_path])

LoadModel(model_type, version_id) ==
    /\ ret' = Return("load_model", model_type, version_id,
                     LoadResult(versions_dir, metadata_dir, current, model_type,
                                version_id).result)
    /\ UNCHANGED <<versions_dir, metadata_dir, current, now, Config>>

\* rollback_model
RollbackModel(model_type, version_id) ==
    LET model_path == _get_model_path(model_type, version_id)
    IN
    /\ IF model_path \notin DOMAIN versions_dir
          THEN /\ UNCHANGED current
               /\ ret' = Return("rollback_model", model_type, version_id, "false")
          ELSE /\ current' = SwapPointer(current, model_type, model_path)
               /\ ret' = Return("rollback_model", model_type, version_id, "true")
    /\ UNCHANGED <<versions_dir, metadata_dir, now, Config>>

\* delete_version
DeleteVersion(model_type, version_id) ==
    LET fs == DeleteFiles([v |-> versions_dir, m |-> metadata_dir], current,
                          model_type, version_id)
    IN
    /\ versions_dir' = fs.v
    /\ metadata_dir' = fs.m
    /\ ret' = Return("delete_version", model_type, version_id,
                     IF IsCurrentVersion(versions_dir, current, model_type, version_id)
                     THEN "false" ELSE "true")
    /\ UNCHANGED <<current, now, Config>>

\* Faulty variant of the merge: the new metrics replace the recorded ones
MergeMetricsReplace(old, new) == new

\* metadata["performance_metrics"].update(performance_metrics)
MergeMetrics(old, new) == [k \in DOMAIN old \cup DOMAIN new |->
                              IF k \in DOMAIN new THEN new[k] ELSE old[k]]

\* Faulty variant of update_performance_metrics: a version without a metadata
\* record is given one
UpdatePerformanceMetricsUpsert(model_type, version_id, performance_metrics) ==
    LET metadata_path == _get_metadata_path(model_type, version_id)
        present == metadata_path \in DOMAIN metadata_dir
        old == metadata_dir[metadata_path]
    IN
    /\ IF present /\ old = Corrupt
          THEN /\ UNCHANGED metadata_dir
               /\ ret' = Return("update_performance_metrics", model_type, version_id, "false")
          ELSE /\ metadata_dir' =
                     With(metadata_dir, metadata_path,
                          IF present
                             THEN With(With(old, "performance_metrics",
                                            MergeMetrics(old.performance_metrics,
                                                         performance_metrics)),
                                       "last_updated", now)
                             ELSE ModelMetadata(model_type, version_id, now, NoneDict,
                                                performance_metrics))
               /\ ret' = Return("update_performance_metrics", model_type, version_id, "true")
    /\ UNCHANGED <<versions_dir, current, now, Config>>

\* update_performance_metrics
UpdatePerformanceMetrics(model_type, version_id, performance_metrics) ==
    LET metadata_path == _get_metadata_path(model_type, version_id)
        fails == \/ metadata_path \notin DOMAIN metadata_dir
                 \/ metadata_dir[metadata_path] = Corrupt
        old == metadata_dir[metadata_path]
        new == [k \in DOMAIN old \cup {"last_updated"} |->
                   IF k = "performance_metrics"
                       THEN MergeMetrics(old.performance_metrics, performance_metrics)
                   ELSE IF k = "last_updated" THEN now
                   ELSE old[k]]
    IN
    /\ IF fails
          THEN /\ UNCHANGED metadata_dir
               /\ ret' = Return("update_performance_metrics", model_type, version_id, "false")
          ELSE /\ metadata_dir' = [metadata_dir EXCEPT ![metadata_path] = new]
               /\ ret' = Return("update_performance_metrics", model_type, version_id, "true")
    /\ UNCHANGED <<versions_dir, current, now, Config>>

\* best_score = -float('inf'): below every score
NegInf == -1

\* the loop of get_best_performing_version over the list, newest first
RECURSIVE BestOf(_, _, _, _)
BestOf(versions, metric, best_version, best_score) ==
    IF versions = <<>> THEN best_version
    ELSE LET performance_metrics == Head(versions).performance_metrics
         IN IF metric \in DOMAIN performance_metrics /\ performance_metrics[metric] > best_score
               THEN BestOf(Tail(versions), metric, Head(versions).version_id,
                           performance_metrics[metric])
               ELSE BestOf(Tail(versions), metric, best_version, best_score)

\* ret of a call that takes a metric: the fields of Return, and the metric arguments
ReturnMetric(op, model_type, version_id, result, current_metrics, metric, threshold) ==
    [op |-> op, model_type |-> model_type, version_id |-> version_id, result |-> result,
     current_metrics |-> current_metrics, metric |-> metric, threshold |-> threshold]

\* get_best_performing_version: the id is in ret.version_id, NoneId for None
GetBestPerformingVersion(model_type, metric) ==
    /\ \E versions \in list_versions(versions_dir, metadata_dir, model_type) :
          ret' = ReturnMetric("get_best_performing_version", model_type,
                              BestOf(versions, metric, NoneId, NegInf), "ok",
                              EmptyDict, metric, 0)
    /\ UNCHANGED <<versions_dir, metadata_dir, current, now, Config>>

\* for version_metadata in versions[1:]: the first one that records the metric,
\* as a list of one record, or the empty list
RECURSIVE PreviousVersion(_, _)
PreviousVersion(versions, threshold_metric) ==
    IF versions = <<>> THEN <<>>
    ELSE IF threshold_metric \in DOMAIN Head(versions).performance_metrics
        THEN <<Head(versions)>>
    ELSE PreviousVersion(Tail(versions), threshold_metric)

SkipCurrent(versions) == IF versions = <<>> THEN <<>> ELSE Tail(versions)

\* auto_rollback_on_degradation: the version it picked is in ret.version_id
AutoRollbackOnDegradation(model_type, current_metrics, threshold_metric, degradation_threshold) ==
    /\ \E versions \in list_versions(versions_dir, metadata_dir, model_type) :
          LET previous == PreviousVersion(SkipCurrent(versions), threshold_metric)
              previous_version == IF previous = <<>> THEN NoneId ELSE previous[1].version_id
              model_path == _get_model_path(model_type, previous_version)
              degraded ==
                  /\ threshold_metric \in DOMAIN current_metrics
                  /\ previous # <<>>
                  /\ previous[1].performance_metrics[threshold_metric]
                        - current_metrics[threshold_metric] > degradation_threshold
              done(result) ==
                  ReturnMetric("auto_rollback_on_degradation", model_type,
                               IF threshold_metric \in DOMAIN current_metrics
                                  THEN previous_version ELSE NoneId,
                               result, current_metrics, threshold_metric,
                               degradation_threshold)
          IN IF degraded /\ model_path \in DOMAIN versions_dir
                THEN /\ current' = SwapPointer(current, model_type, model_path)
                     /\ ret' = done("true")
                ELSE /\ UNCHANGED current
                     /\ ret' = done("false")
    /\ UNCHANGED <<versions_dir, metadata_dir, now, Config>>

\* model_file.stem.split('_')[0]
SplitHead(stem) == SubSeq(stem, 1, FirstSep(stem) - 1)

\* the entry of get_version_summary for one model_type, given its list
SummaryEntry(vd, cur, model_type, versions) ==
    [total_versions |-> Len(versions),
     current_version |-> IF model_type \in DOMAIN cur /\ CurrentExists(vd, cur, model_type)
                            THEN SplitFirst(cur[model_type]) ELSE NoneId,
     latest_version |-> IF versions # <<>> THEN versions[1].version_id ELSE NoneId,
     oldest_version |-> IF versions # <<>> THEN versions[Len(versions)].version_id
                        ELSE NoneId,
     versions |-> Ids(versions)]

\* the summaries get_version_summary may return: one entry for each first field of
\* a stored file's name
Summaries(vd, md, cur) ==
    LET model_types == {SplitHead(s) : s \in DOMAIN vd}
    IN {summ \in [model_types -> UNION {{SummaryEntry(vd, cur, t, versions) :
                                            versions \in list_versions(vd, md, t)} :
                                         t \in model_types}] :
           \A t \in model_types :
              \E versions \in list_versions(vd, md, t) :
                  summ[t] = SummaryEntry(vd, cur, t, versions)}

\* get_version_summary: the summary is in ret.result
GetVersionSummary ==
    /\ \E summ \in Summaries(versions_dir, metadata_dir, current) :
          ret' = Return("get_version_summary", Dash, Dash, summ)
    /\ UNCHANGED <<versions_dir, metadata_dir, current, now, Config>>

\* the retention sweep run on its own
Sweep(model_type) ==
    /\ \E versions \in list_versions(versions_dir, metadata_dir, model_type) :
           LET fs == _cleanup_old_versions([v |-> versions_dir, m |-> metadata_dir], current,
                         model_type, versions, max_versions, retention_days, now)
           IN /\ versions_dir' = fs.v
              /\ metadata_dir' = fs.m
    /\ ret' = Return("_cleanup_old_versions", model_type, Dash, "ok")
    /\ UNCHANGED <<current, now, Config>>

\* the clock advances between calls
Tick ==
    /\ now' = now + 1
    /\ ret' = Idle
    /\ UNCHANGED <<versions_dir, metadata_dir, current, Config>>

\* the clock is read again a second later
TickSecond ==
    /\ now' = now + TicksPerSec
    /\ ret' = Idle
    /\ UNCHANGED <<versions_dir, metadata_dir, current, Config>>

----------------------------------------------------------------------------
(* Sequential use: any order of completed calls *)

Init ==
    /\ versions_dir = <<>>
    /\ metadata_dir = <<>>
    /\ current = [t \in ModelTypes |-> NoLink]
    /\ now = 0
    /\ max_versions \in 0..MaxMaxVersions
    /\ retention_days \in 0..MaxRetentionDays
    /\ ret = Idle
    /\ pc = "idle"
    /\ wr = Idle
    /\ seq = <<>>
    /\ calls = 0

DoSave ==
    /\ Called
    /\ \E t \in ModelTypes, p \in Payloads, f \in SaveFaults, dt \in 0..1 :
          /\ now + dt <= MaxTime
          /\ SaveModel(t, p.model, p.metadata, NoneDict, f, dt)
DoLoad == Called /\ \E t \in ModelTypes, v \in CallerIds \cup {NoneId} : LoadModel(t, v)
DoRollback == Called /\ \E t \in ModelTypes, v \in CallerIds : RollbackModel(t, v)
DoDelete == Called /\ \E t \in ModelTypes, v \in CallerIds : DeleteVersion(t, v)
DoUpdate ==
    /\ Called
    /\ \E t \in ModelTypes, v \in CallerIds :
          UpdatePerformanceMetrics(t, v, (Accuracy :> 1))
DoSweep == Called /\ \E t \in ModelTypes : Sweep(t)
DoTick == now < MaxTime /\ Tick /\ UNCHANGED <<Writer, seq, calls>>

Next == DoSave \/ DoLoad \/ DoRollback \/ DoDelete \/ DoUpdate \/ DoSweep \/ DoTick

Spec == Init /\ [][Next]_vars


----------------------------------------------------------------------------
(* A writer whose pointer update runs step by step, beside a reader *)

\* save_model up to the metadata write, or rollback_model up to its test that the
\* version exists: the pointer is not touched yet
BeginSave(model_type, model, metadata) ==
    LET version_id == _generate_version_id(now)
        model_path == _get_model_path(model_type, version_id)
    IN
    /\ pc = "idle"
    /\ calls < MaxCalls /\ calls' = calls + 1
    /\ versions_dir' = With(versions_dir, model_path, [content |-> model, mtime |-> now])
    /\ metadata_dir' = With(metadata_dir, _get_metadata_path(model_type, version_id),
                            ModelMetadata(model_type, version_id, now, metadata, NoneDict))
    /\ pc' = "unlink"
    /\ wr' = [op |-> "save_model", model_type |-> model_type, version_id |-> version_id,
              old |-> current[model_type]]
    /\ UNCHANGED <<current, now, ret, Config, seq>>

BeginRollback(model_type, version_id) ==
    /\ pc = "idle"
    /\ calls < MaxCalls /\ calls' = calls + 1
    /\ IF _get_model_path(model_type, version_id) \notin DOMAIN versions_dir
          THEN /\ ret' = Return("rollback_model", model_type, version_id, "false")
               /\ UNCHANGED <<pc, wr>>
          ELSE /\ pc' = "unlink"
               /\ wr' = [op |-> "rollback_model", model_type |-> model_type,
                         version_id |-> version_id, old |-> current[model_type]]
               /\ UNCHANGED ret
    /\ UNCHANGED <<versions_dir, metadata_dir, current, now, Config, seq>>

\* if current_path.exists() or current_path.is_symlink(): current_path.unlink()
Unlink ==
    /\ pc = "unlink"
    /\ current' = IF CurrentIsSymlink(current, wr.model_type)
                     THEN [current EXCEPT ![wr.model_type] = NoLink] ELSE current
    /\ pc' = "symlink"
    /\ UNCHANGED <<versions_dir, metadata_dir, now, ret, wr, Config, seq, calls>>

\* current_path.symlink_to(relative_path), and the rest of the call
Symlink ==
    LET t == wr.model_type
        cur1 == [current EXCEPT ![t] = _get_model_path(t, wr.version_id)]
    IN
    /\ pc = "symlink"
    /\ current' = cur1
    /\ IF wr.op = "save_model"
          THEN \E versions \in list_versions(versions_dir, metadata_dir, t) :
                  LET fs == _cleanup_old_versions([v |-> versions_dir, m |-> metadata_dir],
                                cur1, t, versions, max_versions, retention_days, now)
                  IN versions_dir' = fs.v /\ metadata_dir' = fs.m
          ELSE UNCHANGED <<versions_dir, metadata_dir>>
    /\ ret' = Return(wr.op, t, wr.version_id, IF wr.op = "save_model" THEN "ok" ELSE "true")
    /\ pc' = "idle"
    /\ UNCHANGED <<now, wr, Config, seq, calls>>

\* a concurrent load_model(model_type, None)
Read(model_type) ==
    /\ calls < MaxCalls /\ calls' = calls + 1
    /\ LoadModel(model_type, NoneId)
    /\ UNCHANGED <<Writer, seq>>

NextPointer ==
    \/ \E t \in ModelTypes, p \in Payloads : BeginSave(t, p.model, p.metadata)
    \/ \E t \in ModelTypes, v \in GeneratedIds : BeginRollback(t, v)
    \/ Unlink
    \/ Symlink
    \/ \E t \in ModelTypes : Read(t)
    \/ DoTick

SpecPointer == Init /\ [][NextPointer]_vars

\* C3: while save_model or rollback_model updates a pointer that named a stored
\* version, a concurrent load_model(type, None) never finds the pointer missing.
C3_PointerNeverMissing ==
    (/\ pc # "idle"
     /\ wr.old \in DOMAIN versions_dir
     /\ ret.op = "load_model" /\ ret.version_id = NoneId /\ ret.model_type = wr.model_type)
        => ret.result # "NotFound"

----------------------------------------------------------------------------
(* A run of saves of one type under max_versions = 2, then rollbacks *)

DefaultRetentionDays == 30

InitRetention ==
    /\ versions_dir = <<>>
    /\ metadata_dir = <<>>
    /\ current = [t \in ModelTypes |-> NoLink]
    /\ now = 0
    /\ max_versions = 2
    /\ retention_days \in (0..MaxRetentionDays) \cup {DefaultRetentionDays}
    /\ ret = Idle
    /\ pc = "idle"
    /\ wr = Idle
    /\ seq = <<>>
    /\ calls = 0

Range(f) == {f[i] : i \in DOMAIN f}

\* the next save of the run: it comes in a later second than the ones before
RunSave ==
    /\ Len(seq) < RunLength
    /\ _generate_version_id(now) \notin Range(seq)
    /\ \E p \in Payloads : SaveModel(TypeA, p.model, p.metadata, NoneDict, "none", 0)
    /\ seq' = Append(seq, _generate_version_id(now))
    /\ UNCHANGED <<Writer, calls>>

\* after the run: a rollback to one of the saved versions
RunRollback ==
    /\ Len(seq) = RunLength
    /\ \E i \in 1..Len(seq) : RollbackModel(TypeA, seq[i])
    /\ UNCHANGED <<Writer, seq, calls>>

RunSweep ==
    /\ Len(seq) = RunLength
    /\ Sweep(TypeA)
    /\ UNCHANGED <<Writer, seq, calls>>

RunTick ==
    /\ Sec(now) < RunLength
    /\ Tick
    /\ UNCHANGED <<Writer, seq, calls>>

NextRetention == RunSave \/ RunRollback \/ RunSweep \/ RunTick

SpecRetention == InitRetention /\ [][NextRetention]_vars

----------------------------------------------------------------------------
(* Versions that record performance metrics: saves, metric updates, rollbacks and
   the queries that read the metrics *)

InitMetrics ==
    /\ versions_dir = <<>>
    /\ metadata_dir = <<>>
    /\ current = [t \in ModelTypes |-> NoLink]
    /\ now = 0
    /\ max_versions = MaxMaxVersions + 1
    /\ retention_days \in 0..MaxRetentionDays
    /\ ret = Idle
    /\ pc = "idle"
    /\ wr = Idle
    /\ seq = <<>>
    /\ calls = 0

\* one more of a bounded number of calls that may write
CalledMetric == calls < MaxMetricCalls /\ calls' = calls + 1 /\ UNCHANGED <<Writer, seq>>
\* a call that only reads
Queried == UNCHANGED <<Writer, seq, calls>>

MetricSave ==
    /\ CalledMetric
    /\ \E t \in ModelTypes, pm \in MetricDicts \cup {NoneDict} :
          SaveModel(t, "A1", NoneDict, pm, "none", 0)
MetricUpdate ==
    /\ CalledMetric
    /\ \E t \in ModelTypes, v \in GeneratedMetricIds, pm \in MetricDicts :
          UpdatePerformanceMetrics(t, v, pm)
MetricRollback ==
    /\ CalledMetric
    /\ \E t \in ModelTypes, v \in GeneratedMetricIds : RollbackModel(t, v)
MetricAutoRollback ==
    /\ CalledMetric
    /\ \E t \in ModelTypes, cm \in MetricDicts, th \in 0..MaxThreshold :
          AutoRollbackOnDegradation(t, cm, Accuracy, th)
MetricBest ==
    /\ Queried
    /\ \E t \in ModelTypes, m \in MetricNames : GetBestPerformingVersion(t, m)
MetricSummary == Queried /\ GetVersionSummary
MetricTick == now < MaxMetricTime /\ TickSecond /\ Queried

NextMetrics ==
    \/ MetricSave \/ MetricUpdate \/ MetricRollback \/ MetricAutoRollback
    \/ MetricBest \/ MetricSummary \/ MetricTick

SpecMetrics == InitMetrics /\ [][NextMetrics]_vars

----------------------------------------------------------------------------
(* Properties of the sequential calls *)

\* the files of a type that carry an id save_model generates
OwnFiles(vd, model_type) ==
    {s \in DOMAIN vd : \E v \in GeneratedIds : s = _get_model_path(model_type, v)}

LoadCurrent(vd, md, cur, model_type) == LoadResult(vd, md, cur, model_type, NoneId)

\* C1: whenever the current pointer of a model_type is set, the artifact of the
\* version it names is stored.
C1_PointerNamesStoredVersion ==
    \A t \in ModelTypes : current[t] # NoLink => current[t] \in DOMAIN versions_dir

\* C2: a retention sweep, run on its own or by save_model after the pointer swap,
\* never deletes the artifact or the metadata record of the version the pointer of
\* the swept type names, for every max_versions and retention_days.
C2_SweepKeepsCurrent ==
    [][(ret'.op \in {"_cleanup_old_versions", "save_model"} /\ ret'.result = "ok") =>
          LET t == ret'.model_type
              target == current'[t]
          IN /\ ret'.op = "_cleanup_old_versions" =>
                   (CurrentExists(versions_dir, current, t) =>
                       /\ target \in DOMAIN versions_dir'
                       /\ versions_dir'[target] = versions_dir[target]
                       /\ target \in DOMAIN metadata_dir => target \in DOMAIN metadata_dir')
             /\ ret'.op = "save_model" =>
                   /\ target = _get_model_path(t, ret'.version_id)
                   /\ target \in DOMAIN versions_dir'
                   /\ target \in DOMAIN metadata_dir']_vars

\* a sweep has run on a type whose current version is ranked beyond max_versions
\* and is older than the cutoff, and the version is still stored
C2_Witness ==
    /\ ret.op = "_cleanup_old_versions"
    /\ CurrentExists(versions_dir, current, ret.model_type)
    /\ \E versions \in list_versions(versions_dir, metadata_dir, ret.model_type) :
          \E i \in 1..Len(versions) :
              /\ i > max_versions
              /\ versions[i].model_path = current[ret.model_type]
              /\ versions[i].created_at < CutoffDate(now, retention_days)

\* C4: a save_model that raises while writing the artifact or the metadata leaves
\* the pointer as it was, and load_model(type, None) returns what it returned before.
C4_FailedSaveKeepsCurrent ==
    [][(ret'.op = "save_model" /\ ret'.result = "raised") =>
          /\ current' = current
          /\ LoadCurrent(versions_dir', metadata_dir', current', ret'.model_type).result
               = LoadCurrent(versions_dir, metadata_dir, current, ret'.model_type).result
          /\ LoadCurrent(versions_dir', metadata_dir', current', ret'.model_type).model
               = LoadCurrent(versions_dir, metadata_dir, current, ret'.model_type).model]_vars

C6_RoundTrip ==
    [][(ret'.op = "save_model" /\ ret'.result = "ok") =>
        \A p \in Payloads, dt \in 0..1 :
          SaveModel(ret'.model_type, p.model, p.metadata, NoneDict, "none", dt) =>
             LET t == ret'.model_type
                 r == LoadCurrent(versions_dir', metadata_dir', current', t)
             IN /\ r.result = "ok"
                /\ r.model = p.model
                /\ r.metadata # EmptyDict
                /\ r.metadata.version_id = ret'.version_id
                /\ r.metadata.metadata = OrEmpty(p.metadata)
                /\ SplitFirst(current'[t]) = ret'.version_id]_vars

\* C7: after each successful save_model of a sequence on one model_type,
\* load_model(t, None) returns exactly the artifact of that call.
C7_LoadReturnsLastSaved ==
    [][(ret'.op = "save_model" /\ ret'.result = "ok") =>
        \A p \in Payloads, dt \in 0..1 :
          SaveModel(ret'.model_type, p.model, p.metadata, NoneDict, "none", dt) =>
             LET t == ret'.model_type
                 r == LoadCurrent(versions_dir', metadata_dir', current', t)
             IN r.result = "ok" /\ r.model = p.model]_vars

\* the second of two saves of a type that stored different artifacts has completed,
\* and the pointer names its version
C7_Witness ==
    /\ ret.op = "save_model" /\ ret.result = "ok"
    /\ current[ret.model_type] = _get_model_path(ret.model_type, ret.version_id)
    /\ \E s \in OwnFiles(versions_dir, ret.model_type) :
          /\ s # current[ret.model_type]
          /\ versions_dir[s].content \in Artifacts
          /\ versions_dir[s].content # versions_dir[current[ret.model_type]].content

\* C9: delete_version of the version the pointer names (a stored one) returns
\* false and changes neither store nor the pointer; the version loads as before.
C9_DeleteCurrentRefused ==
    [][(/\ ret'.op = "delete_version"
        /\ current[ret'.model_type] = _get_model_path(ret'.model_type, ret'.version_id)
        /\ _get_model_path(ret'.model_type, ret'.version_id) \in DOMAIN versions_dir) =>
          /\ ret'.result = "false"
          /\ UNCHANGED <<versions_dir, metadata_dir, current>>
          /\ LoadResult(versions_dir', metadata_dir', current', ret'.model_type,
                        ret'.version_id).result # "NotFound"]_vars

\* delete_version was called on the stored current version and refused
C9_Witness ==
    /\ ret.op = "delete_version" /\ ret.result = "false"
    /\ current[ret.model_type] = _get_model_path(ret.model_type, ret.version_id)
    /\ current[ret.model_type] \in DOMAIN versions_dir
    /\ current[ret.model_type] \in DOMAIN metadata_dir

\* C10: rollback_model returns false and changes nothing when the version's
\* artifact is not stored; otherwise it returns true, the pointer of the type
\* names the version, and both stores (so the previously current version too) and
\* the other types' pointers are unchanged.
C10_Rollback ==
    [][ret'.op = "rollback_model" =>
          LET t == ret'.model_type
              path == _get_model_path(t, ret'.version_id)
          IN /\ UNCHANGED <<versions_dir, metadata_dir>>
             /\ \A u \in ModelTypes \ {t} : current'[u] = current[u]
             /\ IF path \in DOMAIN versions_dir
                   THEN ret'.result = "true" /\ current'[t] = path
                   ELSE ret'.result = "false" /\ current'[t] = current[t]]_vars

\* a rollback moved the pointer to an older version while the newer one, current
\* before, is still stored with its metadata
C10_Witness ==
    /\ ret.op = "rollback_model" /\ ret.result = "true"
    /\ current[ret.model_type] = _get_model_path(ret.model_type, ret.version_id)
    /\ \E s \in OwnFiles(versions_dir, ret.model_type) :
          /\ s \in DOMAIN metadata_dir
          /\ metadata_dir[s] # Corrupt
          /\ current[ret.model_type] \in DOMAIN metadata_dir
          /\ metadata_dir[current[ret.model_type]] # Corrupt
          /\ metadata_dir[s].created_at > metadata_dir[current[ret.model_type]].created_at

----------------------------------------------------------------------------
(* Properties of the listing *)

\* the list is ordered by created_at, newest first
Descending(versions) ==
    \A i, j \in 1..Len(versions) : i < j => versions[i].created_at >= versions[j].created_at

\* C11: list_versions(t) is ordered by created_at descending and versions of equal
\* created_at are put in one fixed order, so whatever order the directory is
\* enumerated in the call has one possible result.
C11_ListOrderDeterministic ==
    \A t \in ModelTypes :
        LET lists == list_versions(versions_dir, metadata_dir, t)
        IN /\ \A versions \in lists : Descending(versions)
           /\ Cardinality(lists) = 1

----------------------------------------------------------------------------
(* Properties of the metric queries *)

\* the stored versions of a type: the artifacts save_model wrote for it
StoredVersions(vd, model_type) ==
    {s \in DOMAIN vd : \E v \in GeneratedMetricIds : s = _get_model_path(model_type, v)}

\* the stored versions of a type whose metadata record holds a value of the metric
Recording(vd, md, model_type, metric) ==
    {s \in StoredVersions(vd, model_type) :
        /\ s \in DOMAIN md
        /\ md[s] # Corrupt
        /\ metric \in DOMAIN md[s].performance_metrics}

Score(md, s, metric) == md[s].performance_metrics[metric]

\* C12: get_best_performing_version(t, metric) returns none exactly when no version
\* of t records the metric; otherwise it returns the id of a version of t whose
\* value is the maximum over the versions of t recording it, the most recently
\* created one of those reaching the maximum.
C12_BestVersion ==
    [][ret'.op = "get_best_performing_version" =>
          LET t == ret'.model_type
              m == ret'.metric
              R == Recording(versions_dir, metadata_dir, t, m)
              best == _get_model_path(t, ret'.version_id)
          IN IF R = {} THEN ret'.version_id = NoneId
             ELSE /\ best \in R
                  /\ \A q \in R :
                        /\ Score(metadata_dir, q, m) <= Score(metadata_dir, best, m)
                        /\ Score(metadata_dir, q, m) = Score(metadata_dir, best, m) =>
                              metadata_dir[q].created_at <= metadata_dir[best].created_at]_vars

\* the time-descending lists of the stored versions of a type, each version with
\* its metadata record
VersionLists(vd, md, model_type) ==
    SortedLists({md[s] : s \in StoredVersions(vd, model_type) \cap DOMAIN md})

\* i is the first index after the newest entry whose version records the metric
FirstRecordingAfterNewest(versions, metric, i) ==
    /\ i \in 2..Len(versions)
    /\ metric \in DOMAIN versions[i].performance_metrics
    /\ \A j \in 2..(i - 1) : metric \notin DOMAIN versions[j].performance_metrics

\* C13: auto_rollback_on_degradation(t, current_metrics, m, th) returns true, with
\* the pointer of t then naming the first version after index 0 of the
\* time-descending list of t that records m, exactly when m is in current_metrics,
\* such a version exists and its value minus current_metrics[m] is greater than th;
\* otherwise it returns false and the pointer is unchanged. The stores never change.
C13_AutoRollback ==
    [][ret'.op = "auto_rollback_on_degradation" =>
          LET t == ret'.model_type
              cm == ret'.current_metrics
              m == ret'.metric
              th == ret'.threshold
          IN /\ UNCHANGED <<versions_dir, metadata_dir>>
             /\ \E versions \in VersionLists(versions_dir, metadata_dir, t) :
                   IF /\ m \in DOMAIN cm
                      /\ \E i \in 1..Len(versions) :
                            /\ FirstRecordingAfterNewest(versions, m, i)
                            /\ versions[i].performance_metrics[m] - cm[m] > th
                      THEN /\ ret'.result = "true"
                           /\ \E i \in 1..Len(versions) :
                                 /\ FirstRecordingAfterNewest(versions, m, i)
                                 /\ current'[t] = _get_model_path(t, versions[i].version_id)
                           /\ \A u \in ModelTypes \ {t} : current'[u] = current[u]
                      ELSE /\ ret'.result = "false"
                           /\ current' = current]_vars

\* the stored versions of a type that record the metric and were created before
\* the version stored at `active`
PriorRecording(vd, md, model_type, metric, active) ==
    {s \in Recording(vd, md, model_type, metric) : md[s].created_at < md[active].created_at}

\* C14: the version auto_rollback_on_degradation compares against, and repoints to
\* when it returns true, is the nearest version created before the active version
\* (the pointer's target) that records the metric, also when the active version is
\* not the newest one; the pointer never moves to a version created after the
\* active one.
C14_NearestBeforeActive ==
    [][(/\ ret'.op = "auto_rollback_on_degradation"
        /\ ret'.metric \in DOMAIN ret'.current_metrics
        /\ CurrentExists(versions_dir, current, ret'.model_type)
        /\ current[ret'.model_type] \in DOMAIN metadata_dir) =>
          LET t == ret'.model_type
              active == current[t]
              picked == _get_model_path(t, ret'.version_id)
              prior == PriorRecording(versions_dir, metadata_dir, t, ret'.metric, active)
          IN /\ IF prior = {} THEN ret'.version_id = NoneId
                ELSE /\ picked \in prior
                     /\ \A s \in prior :
                           metadata_dir[s].created_at <= metadata_dir[picked].created_at
             /\ ret'.result = "true" => current'[t] = picked
             /\ current'[t] \in DOMAIN metadata_dir
             /\ metadata_dir[current'[t]].created_at <= metadata_dir[active].created_at]_vars

----------------------------------------------------------------------------
(* Properties of update_performance_metrics *)

\* C15: a successful update_performance_metrics is an additive merge: the recorded
\* metrics afterwards have the keys recorded before and the keys of the update,
\* the update's keys with the update's values and the other keys with the values
\* they had (so a sequence of updates leaves each key with the last value supplied
\* for it); the version's artifact, created_at and metadata field, the other
\* records and the pointers are unchanged.
C15_MetricsMerge ==
    [][(ret'.op = "update_performance_metrics" /\ ret'.result = "true") =>
        \A pm \in MetricDicts :
          UpdatePerformanceMetrics(ret'.model_type, ret'.version_id, pm) =>
             LET path == _get_metadata_path(ret'.model_type, ret'.version_id)
                 old == metadata_dir[path]
                 new == metadata_dir'[path]
             IN /\ DOMAIN new.performance_metrics
                      = DOMAIN old.performance_metrics \cup DOMAIN pm
                /\ \A k \in DOMAIN pm : new.performance_metrics[k] = pm[k]
                /\ \A k \in DOMAIN old.performance_metrics \ DOMAIN pm :
                      new.performance_metrics[k] = old.performance_metrics[k]
                /\ new.created_at = old.created_at
                /\ new.metadata = old.metadata
                /\ new.version_id = old.version_id
                /\ DOMAIN metadata_dir' = DOMAIN metadata_dir
                /\ \A q \in DOMAIN metadata_dir \ {path} : metadata_dir'[q] = metadata_dir[q]
                /\ UNCHANGED <<versions_dir, current>>]_vars

\* an update of a version has completed at a later time than its save: its record
\* holds a metric recorded before and a metric of another name, and the version
\* still is the current one, stored
C15_Witness ==
    /\ ret.op = "update_performance_metrics" /\ ret.result = "true"
    /\ LET path == _get_metadata_path(ret.model_type, ret.version_id)
       IN /\ path \in DOMAIN metadata_dir
          /\ DOMAIN metadata_dir[path].performance_metrics = MetricNames
          /\ metadata_dir[path].performance_metrics[Accuracy] = MaxScore
          /\ "last_updated" \in DOMAIN metadata_dir[path]
          /\ metadata_dir[path].last_updated > metadata_dir[path].created_at
          /\ current[ret.model_type] = path
          /\ path \in DOMAIN versions_dir

\* C16: update_performance_metrics(t, id, metrics) returns false and changes
\* nothing when no metadata record is stored for (t, id), also when the artifact
\* of (t, id) is stored and list_versions shows it with a synthesized record.
C16_UpdateWithoutRecord ==
    [][(/\ ret'.op = "update_performance_metrics"
        /\ _get_metadata_path(ret'.model_type, ret'.version_id) \notin DOMAIN metadata_dir) =>
          /\ ret'.result = "false"
          /\ UNCHANGED <<versions_dir, metadata_dir, current>>]_vars

\* an update was refused for a version whose artifact is stored without a metadata
\* record and which list_versions shows with a synthesized record
C16_Witness ==
    /\ ret.op = "update_performance_metrics" /\ ret.result = "false"
    /\ LET path == _get_model_path(ret.model_type, ret.version_id)
       IN /\ path \in DOMAIN versions_dir
          /\ _get_metadata_path(ret.model_type, ret.version_id) \notin DOMAIN metadata_dir
          /\ \E versions \in list_versions(versions_dir, metadata_dir, ret.model_type) :
                \E i \in 1..Len(versions) :
                    /\ versions[i] = BasicMetadata(versions_dir, ret.model_type, path)
                    /\ versions[i].version_id = ret.version_id

----------------------------------------------------------------------------
(* Properties of the partition by model_type *)

\* the names of the files save_model writes for a type
NamesOf(model_type) == {_get_model_path(model_type, v) : v \in GeneratedIds}

\* the part of a directory that belongs to a type
Restrict(dir, model_type) == [s \in DOMAIN dir \cap NamesOf(model_type) |-> dir[s]]

\* C17: for different model_types a and b (one may be the other followed by the
\* separator and more), save_model with its sweep, the sweep alone, rollback_model,
\* delete_version and update_performance_metrics on a leave the versions, the
\* metadata records and the pointer of b as they were, and list_versions(a) holds
\* no version saved under b.
C17_TypesPartition ==
    [][/\ ret'.op \in {"save_model", "_cleanup_old_versions", "rollback_model",
                       "delete_version", "update_performance_metrics"} =>
             \A b \in ModelTypes \ {ret'.model_type} :
                /\ Restrict(versions_dir', b) = Restrict(versions_dir, b)
                /\ Restrict(metadata_dir', b) = Restrict(metadata_dir, b)
                /\ current'[b] = current[b]
       /\ \A a \in ModelTypes :
             \A versions \in list_versions(versions_dir', metadata_dir', a) :
                \A i \in 1..Len(versions) : versions[i].model_path \in NamesOf(a)]_vars

----------------------------------------------------------------------------
(* Properties of load_model *)

\* C18: load_model(t, None) fails with a not-found error when t has no current
\* pointer, and load_model(t, id) fails with a not-found error when no artifact is
\* stored for (t, id); a load, failed or not, changes no stored state.
C18_LoadNotFound ==
    [][ret'.op = "load_model" =>
          LET t == ret'.model_type
              id == ret'.version_id
          IN /\ (id = NoneId /\ ~CurrentIsSymlink(current, t)) => ret'.result = "NotFound"
             /\ (id # NoneId /\ _get_model_path(t, id) \notin DOMAIN versions_dir) =>
                   ret'.result = "NotFound"
             /\ UNCHANGED <<versions_dir, metadata_dir, current>>]_vars

\* load_model(t, None) failed with not-found for a type that has no pointer while
\* an artifact of the type is stored
C18_Witness ==
    /\ ret.op = "load_model" /\ ret.version_id = NoneId /\ ret.result = "NotFound"
    /\ ~CurrentIsSymlink(current, ret.model_type)
    /\ DOMAIN versions_dir \cap NamesOf(ret.model_type) # {}

----------------------------------------------------------------------------
(* Properties of get_version_summary *)

\* the id save_model gave the version stored under the name s
IdOf(model_type, s) == CHOOSE v \in GeneratedMetricIds : s = _get_model_path(model_type, v)

\* the versions of S created no earlier (latest = TRUE) or no later than every
\* other one in S
Extreme(md, S, latest) ==
    {s \in S : \A q \in S : IF latest THEN md[q].created_at <= md[s].created_at
                            ELSE md[s].created_at <= md[q].created_at}

\* C19: get_version_summary has an entry for exactly the model_types with a stored
\* version, and the entry of a type gives the number of its stored versions, the
\* version its pointer names, its most recently and its least recently created
\* version.
C19_Summary ==
    [][ret'.op = "get_version_summary" =>
          LET summ == ret'.result
              stored(t) == StoredVersions(versions_dir, t)
          IN /\ DOMAIN summ = {t \in ModelTypes : stored(t) # {}}
             /\ \A t \in DOMAIN summ :
                   /\ summ[t].total_versions = Cardinality(stored(t))
                   /\ summ[t].current_version =
                         IF CurrentExists(versions_dir, current, t)
                            THEN IdOf(t, current[t]) ELSE NoneId
                   /\ \E s \in Extreme(metadata_dir, stored(t), TRUE) :
                         summ[t].latest_version = IdOf(t, s)
                   /\ \E s \in Extreme(metadata_dir, stored(t), FALSE) :
                         summ[t].oldest_version = IdOf(t, s)]_vars

----------------------------------------------------------------------------
(* Properties of reading a store that lost metadata records *)

\* the entries of a list that stand for the artifact stored under the name s
EntriesOf(versions, s) == {i \in 1..Len(versions) : versions[i].model_path = s}

\* C20: every artifact stored for a model_type is in list_versions of the type
\* exactly once: with its metadata record when one is stored, otherwise with a
\* synthesized record of its id with empty performance_metrics and metadata, and
\* then load_model of the version still returns the artifact.
C20_EveryArtifactListed ==
    \A t \in ModelTypes :
       \A versions \in list_versions(versions_dir, metadata_dir, t) :
          \A v \in GeneratedIds :
             LET s == _get_model_path(t, v)
             IN s \in DOMAIN versions_dir =>
                   /\ Cardinality(EntriesOf(versions, s)) = 1
                   /\ \A i \in EntriesOf(versions, s) :
                         IF _get_metadata_path(t, v) \in DOMAIN metadata_dir
                            THEN versions[i] = metadata_dir[_get_metadata_path(t, v)]
                            ELSE /\ versions[i].version_id = v
                                 /\ versions[i].performance_metrics = EmptyDict
                                 /\ versions[i].metadata = EmptyDict
                                 /\ versions_dir[s].content \in Artifacts =>
                                       LoadResult(versions_dir, metadata_dir, current,
                                                  t, v).result = "ok"

----------------------------------------------------------------------------
(* Properties of the stored artifacts *)

\* C21: save_model, rollback_model, update_performance_metrics and the sweep leave
\* the content of every artifact that is stored before and after them as it was,
\* and rollback_model and update_performance_metrics remove no artifact.
C21_ArtifactImmutable ==
    [][ret'.op \in {"save_model", "rollback_model", "update_performance_metrics",
                    "_cleanup_old_versions"} =>
          /\ \A s \in DOMAIN versions_dir \cap DOMAIN versions_dir' :
                versions_dir'[s].content = versions_dir[s].content
          /\ ret'.op \in {"rollback_model", "update_performance_metrics"} =>
                DOMAIN versions_dir \subseteq DOMAIN versions_dir']_vars

----------------------------------------------------------------------------
(* Properties of the retention sweep *)

\* created_at of the version stored under the name s: of its metadata record, or
\* of its file when the record is missing or unreadable
CreatedAt(vd, md, s) ==
    IF s \in DOMAIN md /\ md[s] # Corrupt THEN md[s].created_at ELSE vd[s].mtime

\* the stored versions of a type that the count rule or the age rule marks at time
\* t, the current version left out
Marked(vd, md, cur, model_type, maxv, days, t) ==
    LET own == DOMAIN vd \cap NamesOf(model_type)
        rank(s) == 1 + Cardinality({q \in own : CreatedAt(vd, md, q) > CreatedAt(vd, md, s)})
    IN {s \in own : \/ rank(s) > maxv
                    \/ CreatedAt(vd, md, s) < CutoffDate(t, days)} \ {cur[model_type]}

\* C22: the versions a retention sweep of a type deletes are exactly those of the
\* type ranked beyond max_versions in the created_at-descending order together
\* with those created before now minus retention_days, the current version left
\* out; nothing else is deleted.
C22_SweepSet ==
    [][ret'.op = "_cleanup_old_versions" =>
          DOMAIN versions_dir \ DOMAIN versions_dir'
             = Marked(versions_dir, metadata_dir, current, ret'.model_type,
                      max_versions, retention_days, now)]_vars

----------------------------------------------------------------------------
(* A sweep in which unlink raises for some files *)

\* where delete_version raises: at model_path.unlink() or at metadata_path.unlink()
UnlinkFaults == {"model", "metadata"}

\* delete_version raises for this version: its file of the kind `fault` is one of
\* the `locked` files
DeleteRaises(fs, cur, model_type, version_id, locked, fault) ==
    /\ ~IsCurrentVersion(fs.v, cur, model_type, version_id)
    /\ IF fault = "model"
          THEN /\ _get_model_path(model_type, version_id) \in DOMAIN fs.v
               /\ _get_model_path(model_type, version_id) \in locked
          ELSE /\ _get_metadata_path(model_type, version_id) \in DOMAIN fs.m
               /\ _get_metadata_path(model_type, version_id) \in locked

\* the stores after delete_version: the except clause leaves what was done before
\* the unlink that raised
DeleteFilesLocked(fs, cur, model_type, version_id, locked, fault) ==
    IF ~DeleteRaises(fs, cur, model_type, version_id, locked, fault)
        THEN DeleteFiles(fs, cur, model_type, version_id)
    ELSE IF fault = "model" THEN fs
    ELSE [v |-> Without(fs.v, _get_model_path(model_type, version_id)), m |-> fs.m]

\* Faulty variant of the loop: the first delete that raises ends it
RECURSIVE DeleteAllLockedAbort(_, _, _, _, _, _)
DeleteAllLockedAbort(fs, cur, model_type, ids, locked, fault) ==
    IF ids = <<>> THEN fs
    ELSE IF DeleteRaises(fs, cur, model_type, Head(ids), locked, fault)
        THEN DeleteFilesLocked(fs, cur, model_type, Head(ids), locked, fault)
    ELSE DeleteAllLockedAbort(DeleteFilesLocked(fs, cur, model_type, Head(ids), locked, fault),
                              cur, model_type, Tail(ids), locked, fault)

\* for version_metadata in ...: self.delete_version(model_type, version_id)
RECURSIVE DeleteAllLocked(_, _, _, _, _, _)
DeleteAllLocked(fs, cur, model_type, ids, locked, fault) ==
    IF ids = <<>> THEN fs
    ELSE DeleteAllLocked(DeleteFilesLocked(fs, cur, model_type, Head(ids), locked, fault),
                         cur, model_type, Tail(ids), locked, fault)

\* the stores after _cleanup_old_versions ran at time t on the list `versions`
CleanupLocked(fs, cur, model_type, versions, maxv, days, t, locked, fault) ==
    LET afterCount == DeleteAllLocked(fs, cur, model_type, Ids(BeyondMax(versions, maxv)),
                                      locked, fault)
    IN DeleteAllLocked(afterCount, cur, model_type,
                       Ids(OlderThan(versions, CutoffDate(t, days))), locked, fault)

\* ret of a call whose sweep met locked files
ReturnLocked(op, model_type, version_id, result, locked, fault) ==
    [op |-> op, model_type |-> model_type, version_id |-> version_id, result |-> result,
     locked |-> locked, fault |-> fault]

\* save_model whose sweep meets locked files
SaveModelLocked(model_type, model, metadata, locked, fault) ==
    LET version_id == _generate_version_id(now)
        model_path == _get_model_path(model_type, version_id)
        metadata_path == _get_metadata_path(model_type, version_id)
        vd1 == With(versions_dir, model_path, [content |-> model, mtime |-> now])
        md1 == With(metadata_dir, metadata_path,
                    ModelMetadata(model_type, version_id, now, metadata, NoneDict))
        cur1 == SwapPointer(current, model_type, model_path)
    IN
    /\ \E versions \in list_versions(vd1, md1, model_type) :
          LET fs == CleanupLocked([v |-> vd1, m |-> md1], cur1, model_type, versions,
                                  max_versions, retention_days, now, locked, fault)
          IN /\ versions_dir' = fs.v
             /\ metadata_dir' = fs.m
    /\ current' = cur1
    /\ ret' = ReturnLocked("save_model", model_type, version_id, "ok", locked, fault)
    /\ UNCHANGED <<now, Config>>

\* the sweep on its own, meeting locked files
SweepLocked(model_type, locked, fault) ==
    /\ \E versions \in list_versions(versions_dir, metadata_dir, model_type) :
          LET fs == CleanupLocked([v |-> versions_dir, m |-> metadata_dir], current,
                                  model_type, versions, max_versions, retention_days, now,
                                  locked, fault)
          IN /\ versions_dir' = fs.v
             /\ metadata_dir' = fs.m
    /\ ret' = ReturnLocked("_cleanup_old_versions", model_type, Dash, "ok", locked, fault)
    /\ UNCHANGED <<current, now, Config>>

CalledLocked == calls < MaxLockedCalls /\ calls' = calls + 1 /\ UNCHANGED <<Writer, seq>>

LockedSave ==
    /\ CalledLocked
    /\ \E t \in ModelTypes, p \in Payloads, fault \in UnlinkFaults :
          \E locked \in SUBSET (DOMAIN versions_dir) :
              SaveModelLocked(t, p.model, p.metadata, locked, fault)
LockedSweep ==
    /\ CalledLocked
    /\ \E t \in ModelTypes, fault \in UnlinkFaults :
          \E locked \in SUBSET (DOMAIN versions_dir) : SweepLocked(t, locked, fault)
LockedRollback ==
    /\ CalledLocked
    /\ \E t \in ModelTypes, v \in GeneratedMetricIds : RollbackModel(t, v)
LockedTick == now < MaxMetricTime /\ Tick /\ UNCHANGED <<Writer, seq, calls>>

NextLocked == LockedSave \/ LockedSweep \/ LockedRollback \/ LockedTick

SpecLocked == Init /\ [][NextLocked]_vars

\* the stores a sweep started from, seen from the step of the call that ran it:
\* for save_model, the stores with the new version written
BeforeSweep ==
    IF ret'.op = "save_model"
       THEN LET path == _get_model_path(ret'.model_type, ret'.version_id)
            IN [v |-> With(versions_dir, path, versions_dir'[path]),
                m |-> With(metadata_dir, path, metadata_dir'[path])]
       ELSE [v |-> versions_dir, m |-> metadata_dir]

\* C23: a delete that fails inside a sweep stops no other delete of the sweep:
\* every file that is not locked ends as the sweep without failures leaves it; and
\* a save_model whose sweep met failures returns its new version id with the
\* pointer at the new version, stored with its metadata.
C23_SweepFailuresIsolated ==
    [][/\ ret'.op = "save_model" =>
             LET path == _get_model_path(ret'.model_type, ret'.version_id)
             IN /\ ret'.result = "ok"
                /\ ret'.version_id = _generate_version_id(now)
                /\ current'[ret'.model_type] = path
                /\ path \in DOMAIN versions_dir'
                /\ path \in DOMAIN metadata_dir'
       /\ ret'.op \in {"save_model", "_cleanup_old_versions"} =>
             \E versions \in list_versions(BeforeSweep.v, BeforeSweep.m, ret'.model_type) :
                LET clean == _cleanup_old_versions(BeforeSweep, current', ret'.model_type,
                                 versions, max_versions, retention_days, now)
                IN /\ \A s \in DOMAIN BeforeSweep.v \ ret'.locked :
                         s \in DOMAIN versions_dir' <=> s \in DOMAIN clean.v
                   /\ ret'.fault = "model" =>
                         \A s \in DOMAIN BeforeSweep.m \ ret'.locked :
                            s \in DOMAIN metadata_dir' <=> s \in DOMAIN clean.m]_vars

\* a save_model has returned whose sweep could not delete a version marked by the
\* count rule, because its file is locked: the version is still stored and the
\* pointer names the new version
C23_Witness ==
    /\ ret.op = "save_model" /\ ret.result = "ok"
    /\ current[ret.model_type] = _get_model_path(ret.model_type, ret.version_id)
    /\ \E versions \in list_versions(versions_dir, metadata_dir, ret.model_type) :
          \E i \in 1..Len(versions) :
              /\ i > max_versions
              /\ versions[i].model_path \in ret.locked
              /\ versions[i].model_path \in StoredVersions(versions_dir, ret.model_type)
              /\ versions[i].model_path # current[ret.model_type]

----------------------------------------------------------------------------
(* A save_model that stops after the pointer swap, before or inside its sweep *)

\* the deletes of one sweep, in the order the sweep issues them
SweepIds(versions, maxv, days, t) ==
    Ids(BeyondMax(versions, maxv)) \o Ids(OlderThan(versions, CutoffDate(t, days)))

\* save_model up to the k-th delete of its sweep, where the process stops
CrashedSave(model_type, model, metadata, k) ==
    LET version_id == _generate_version_id(now)
        model_path == _get_model_path(model_type, version_id)
        metadata_path == _get_metadata_path(model_type, version_id)
        vd1 == With(versions_dir, model_path, [content |-> model, mtime |-> now])
        md1 == With(metadata_dir, metadata_path,
                    ModelMetadata(model_type, version_id, now, metadata, NoneDict))
        cur1 == SwapPointer(current, model_type, model_path)
    IN
    /\ \E versions \in list_versions(vd1, md1, model_type) :
          LET ids == SweepIds(versions, max_versions, retention_days, now)
              fs == DeleteAll([v |-> vd1, m |-> md1], cur1, model_type, SubSeq(ids, 1, k))
          IN /\ k <= Len(ids)
             /\ k < Len(ids) \/ k = 0
             /\ versions_dir' = fs.v
             /\ metadata_dir' = fs.m
    /\ current' = cur1
    /\ ret' = Return("save_model", model_type, version_id, "stopped")
    /\ UNCHANGED <<now, Config>>

CalledCrash == calls < MaxCrashCalls /\ calls' = calls + 1 /\ UNCHANGED <<Writer, seq>>

CrashSaveStopped ==
    /\ CalledCrash
    /\ \E t \in ModelTypes, p \in Payloads, k \in 0..MaxCrashCalls :
          CrashedSave(t, p.model, p.metadata, k)
CrashSave ==
    /\ CalledCrash
    /\ \E t \in ModelTypes, p \in Payloads :
          SaveModel(t, p.model, p.metadata, NoneDict, "none", 0)
CrashSweep == CalledCrash /\ \E t \in ModelTypes : Sweep(t)
CrashRollback ==
    /\ CalledCrash
    /\ \E t \in ModelTypes, v \in GeneratedMetricIds : RollbackModel(t, v)
CrashTick == now < MaxMetricTime /\ Tick /\ UNCHANGED <<Writer, seq, calls>>

NextCrash == CrashSaveStopped \/ CrashSave \/ CrashSweep \/ CrashRollback \/ CrashTick

SpecCrash == Init /\ [][NextCrash]_vars

\* the stored versions of a type that the count rule or the age rule marks at time
\* t, the current version left out
Leftover(vd, md, cur, model_type, maxv, days, t) ==
    LET own == StoredVersions(vd, model_type)
        rank(s) == 1 + Cardinality({q \in own : CreatedAt(vd, md, q) > CreatedAt(vd, md, s)})
    IN {s \in own : \/ rank(s) > maxv
                    \/ CreatedAt(vd, md, s) < CutoffDate(t, days)} \ {cur[model_type]}

\* C24: a sweep run again right after a sweep changes nothing; and after every
\* successful save_model, also one that follows a save_model stopped between its
\* pointer swap and the end of its sweep, no version of the type but the current
\* one is marked by the count rule or the age rule.
C24_SweepIdempotent ==
    [][(ret'.op \in {"_cleanup_old_versions", "save_model"} /\ ret'.result = "ok") =>
          LET t == ret'.model_type
              after == [v |-> versions_dir', m |-> metadata_dir']
          IN /\ \A versions \in list_versions(versions_dir', metadata_dir', t) :
                   _cleanup_old_versions(after, current', t, versions, max_versions,
                                         retention_days, now') = after
             /\ ret'.op = "save_model" =>
                   Leftover(versions_dir', metadata_dir', current', t, max_versions,
                            retention_days, now') = {}]_vars

----------------------------------------------------------------------------
(* Saves inside one second: every save is logged with what it was given and
   what it returned *)

\* the log entry of a save that returned version_id
Saved(model_type, version_id, at, model, metadata) ==
    [model_type |-> model_type, version_id |-> version_id, at |-> at,
     model |-> model, metadata |-> metadata]

CollideSave ==
    /\ Len(seq) < MaxCollideSaves
    /\ \E t \in ModelTypes, p \in Payloads :
          /\ SaveModel(t, p.model, p.metadata, NoneDict, "none", 0)
          /\ seq' = Append(seq, Saved(t, ret'.version_id, now, p.model, p.metadata))
    /\ UNCHANGED <<Writer, calls>>

CollideLoad ==
    /\ \E t \in ModelTypes, v \in GeneratedIds \cup {NoneId} : LoadModel(t, v)
    /\ UNCHANGED <<Writer, seq, calls>>

CollideTick == now < MaxTime /\ Tick /\ UNCHANGED <<Writer, seq, calls>>

NextCollide == CollideSave \/ CollideLoad \/ CollideTick

SpecCollide == Init /\ [][NextCollide]_vars

\* the earlier saves of the log made for the same type in the same second as
\* the last one
SameWindow(log) ==
    {i \in 1..(Len(log) - 1) :
        /\ log[i].model_type = log[Len(log)].model_type
        /\ Sec(log[i].at) = Sec(log[Len(log)].at)}

\* C25: when a save_model comes in the same second as an earlier save_model of
\* the same model_type, both return the same version_id, and after the second
\* one the artifact file and the metadata record of that id hold what the second
\* call was given, no other artifact of the type dates from that second, the
\* pointer names the version, and load_model by id and by pointer returns the
\* second call's artifact and metadata: the first artifact is gone.
C25_CollisionOverwrites ==
    [][(Len(seq') = Len(seq) + 1) =>
          LET e == seq'[Len(seq')]
              t == e.model_type
              s == _get_model_path(t, e.version_id)
              second == Loaded("ok", e.model,
                               ModelMetadata(t, e.version_id, e.at, e.metadata, NoneDict))
          IN \A i \in SameWindow(seq') :
                /\ seq'[i].version_id = e.version_id
                /\ ret' = Return("save_model", t, e.version_id, "ok")
                /\ s \in DOMAIN versions_dir' /\ s \in DOMAIN metadata_dir'
                /\ versions_dir'[s] = [content |-> e.model, mtime |-> e.at]
                /\ {q \in StoredVersions(versions_dir', t) :
                       Sec(versions_dir'[q].mtime) = Sec(e.at)} = {s}
                /\ current'[t] = s
                /\ LoadResult(versions_dir', metadata_dir', current', t, e.version_id) = second
                /\ metadata_dir'[s] = second.metadata
                /\ LoadCurrent(versions_dir', metadata_dir', current', t).result = "ok"
                /\ LoadCurrent(versions_dir', metadata_dir', current', t).model = e.model]_vars

\* a save has just overwritten the version an earlier save of the same second
\* stored with another artifact
C25_Witness ==
    /\ Len(seq) >= 2
    /\ ret.op = "save_model" /\ ret.result = "ok"
    /\ \E i \in SameWindow(seq) :
          /\ seq[i].model # seq[Len(seq)].model
          /\ seq[i].at < seq[Len(seq)].at
          /\ versions_dir[_get_model_path(ret.model_type, ret.version_id)].content
                = seq[Len(seq)].model

----------------------------------------------------------------------------
(* The pointer's frame *)

PointerWriters == {"save_model", "rollback_model", "auto_rollback_on_degradation"}

\* C26: a pointer changes only in a step of save_model or of rollback_model
\* (called directly or by auto_rollback_on_degradation), every other call leaves
\* the pointer of every model_type as it was, and a pointer that is set is set
\* in the next state too.
C26_PointerFrame ==
    [][/\ current' # current =>
             \/ pc # "idle" /\ wr.op \in PointerWriters
             \/ pc = "idle" /\ ret'.op \in PointerWriters
       /\ \A t \in ModelTypes : current[t] # NoLink => current'[t] # NoLink]_vars

----------------------------------------------------------------------------
(* Two callers at once: one in delete_version, alone or inside a retention
   sweep, the other in rollback_model of the same type and version; each runs
   its file-system calls one at a time *)

DeleteOrigins == {"delete_version", "_cleanup_old_versions"}

Resting == [del |-> "idle", rb |-> "idle"]

InitRace ==
    /\ versions_dir = <<>>
    /\ metadata_dir = <<>>
    /\ current = [t \in ModelTypes |-> NoLink]
    /\ now = 0
    /\ max_versions \in 0..MaxMaxVersions
    /\ retention_days \in 0..MaxRetentionDays
    /\ ret = Idle
    /\ pc = Resting
    /\ wr = Idle
    /\ seq = <<>>
    /\ calls = 0

\* before the two calls: saves and the clock
RaceSave ==
    /\ pc = Resting
    /\ calls < MaxRaceSaves /\ calls' = calls + 1
    /\ \E t \in ModelTypes, p \in Payloads :
          SaveModel(t, p.model, p.metadata, NoneDict, "none", 0)
    /\ UNCHANGED <<Writer, seq>>

RaceTick == pc = Resting /\ now < MaxTime /\ Tick /\ UNCHANGED <<Writer, seq, calls>>

\* both callers enter their call; wr keeps the arguments and the stores and
\* pointers of that moment
RaceStart ==
    /\ pc = Resting
    /\ \E t \in ModelTypes, v \in GeneratedIds, origin \in DeleteOrigins :
          wr' = [op |-> origin, model_type |-> t, version_id |-> v,
                 start |-> [v |-> versions_dir, m |-> metadata_dir, cur |-> current]]
    /\ pc' = [del |-> "begin", rb |-> "begin"]
    /\ UNCHANGED <<versions_dir, metadata_dir, current, now, ret, Config, seq, calls>>

\* where the deleting caller goes once `ids` are the deletes it still has to make
AfterDelete(ids) == IF ids = <<>> THEN "done" ELSE "guard"

\* delete_version: its one id; the sweep: list_versions and the ids it marks
DelBegin ==
    /\ pc.del = "begin"
    /\ IF wr.op = "delete_version" THEN seq' = <<wr.version_id>>
       ELSE \E versions \in list_versions(versions_dir, metadata_dir, wr.model_type) :
               seq' = SweepIds(versions, max_versions, retention_days, now)
    /\ pc' = [pc EXCEPT !.del = AfterDelete(seq')]
    /\ ret' = IF seq' = <<>> THEN Return(wr.op, wr.model_type, Dash, "ok") ELSE ret
    /\ UNCHANGED <<versions_dir, metadata_dir, current, now, wr, Config, calls>>

\* the result of the deleting call when its last delete_version returned `result`
DeleteReturn(ids, result) ==
    IF ids # <<>> THEN ret
    ELSE IF wr.op = "delete_version"
        THEN Return(wr.op, wr.model_type, wr.version_id, result)
    ELSE Return(wr.op, wr.model_type, Dash, "ok")

\* "Check if this is the current version": return False, or go on
DelGuard ==
    /\ pc.del = "guard"
    /\ IF IsCurrentVersion(versions_dir, current, wr.model_type, Head(seq))
          THEN /\ seq' = Tail(seq)
               /\ pc' = [pc EXCEPT !.del = AfterDelete(Tail(seq))]
               /\ ret' = DeleteReturn(Tail(seq), "false")
          ELSE /\ pc' = [pc EXCEPT !.del = "model"]
               /\ UNCHANGED <<seq, ret>>
    /\ UNCHANGED <<versions_dir, metadata_dir, current, now, wr, Config, calls>>

\* if model_path.exists(): model_path.unlink()
DelModel ==
    /\ pc.del = "model"
    /\ versions_dir' = Without(versions_dir, _get_model_path(wr.model_type, Head(seq)))
    /\ pc' = [pc EXCEPT !.del = "metadata"]
    /\ UNCHANGED <<metadata_dir, current, now, ret, wr, Config, seq, calls>>

\* if metadata_path.exists(): metadata_path.unlink(); return True
DelMetadata ==
    /\ pc.del = "metadata"
    /\ metadata_dir' = Without(metadata_dir, _get_metadata_path(wr.model_type, Head(seq)))
    /\ seq' = Tail(seq)
    /\ pc' = [pc EXCEPT !.del = AfterDelete(Tail(seq))]
    /\ ret' = DeleteReturn(Tail(seq), "true")
    /\ UNCHANGED <<versions_dir, current, now, wr, Config, calls>>

\* if not model_path.exists(): return False
RbBegin ==
    /\ pc.rb = "begin"
    /\ IF _get_model_path(wr.model_type, wr.version_id) \in DOMAIN versions_dir
          THEN pc' = [pc EXCEPT !.rb = "unlink"] /\ UNCHANGED ret
          ELSE /\ pc' = [pc EXCEPT !.rb = "done"]
               /\ ret' = Return("rollback_model", wr.model_type, wr.version_id, "false")
    /\ UNCHANGED <<versions_dir, metadata_dir, current, now, wr, Config, seq, calls>>

\* if current_path.exists() or current_path.is_symlink(): current_path.unlink()
RbUnlink ==
    /\ pc.rb = "unlink"
    /\ current' = IF CurrentIsSymlink(current, wr.model_type)
                     THEN [current EXCEPT ![wr.model_type] = NoLink] ELSE current
    /\ pc' = [pc EXCEPT !.rb = "symlink"]
    /\ UNCHANGED <<versions_dir, metadata_dir, now, ret, wr, Config, seq, calls>>

\* current_path.symlink_to(relative_path); return True
RbSymlink ==
    /\ pc.rb = "symlink"
    /\ current' = [current EXCEPT ![wr.model_type] =
                                     _get_model_path(wr.model_type, wr.version_id)]
    /\ pc' = [pc EXCEPT !.rb = "done"]
    /\ ret' = Return("rollback_model", wr.model_type, wr.version_id, "true")
    /\ UNCHANGED <<versions_dir, metadata_dir, now, wr, Config, seq, calls>>

NextRace ==
    \/ RaceSave \/ RaceTick \/ RaceStart
    \/ DelBegin \/ DelGuard \/ DelModel \/ DelMetadata
    \/ RbBegin \/ RbUnlink \/ RbSymlink

SpecRace == InitRace /\ [][NextRace]_vars

\* the pointers after rollback_model run as one step
RolledBack(vd, cur, model_type, version_id) ==
    IF _get_model_path(model_type, version_id) \in DOMAIN vd
        THEN SwapPointer(cur, model_type, _get_model_path(model_type, version_id))
    ELSE cur

\* the stores the deleting call may leave when run as one step
Deleted(fs, cur, op, model_type, version_id, maxv, days, t) ==
    IF op = "delete_version" THEN {DeleteFiles(fs, cur, model_type, version_id)}
    ELSE {_cleanup_old_versions(fs, cur, model_type, versions, maxv, days, t) :
             versions \in list_versions(fs.v, fs.m, model_type)}

\* the states the two calls leave when one runs after the other, either first
SerialOutcomes(start, op, model_type, version_id, maxv, days, t) ==
    LET fs0 == [v |-> start.v, m |-> start.m]
        cur1 == RolledBack(start.v, start.cur, model_type, version_id)
    IN {[v |-> fs.v, m |-> fs.m,
         cur |-> RolledBack(fs.v, start.cur, model_type, version_id)] :
            fs \in Deleted(fs0, start.cur, op, model_type, version_id, maxv, days, t)}
       \cup
       {[v |-> fs.v, m |-> fs.m, cur |-> cur1] :
            fs \in Deleted(fs0, cur1, op, model_type, version_id, maxv, days, t)}

\* C27: when a delete_version(t, v), issued by a caller or by a retention sweep
\* of t, and a rollback_model(t, v) have both returned, the stores and the
\* pointers are those that one of the two serial orders leaves; so the pointer
\* does not name a version whose artifact the delete removed.
C27_DeleteRollbackSerial ==
    (pc.del = "done" /\ pc.rb = "done") =>
        [v |-> versions_dir, m |-> metadata_dir, cur |-> current]
            \in SerialOutcomes(wr.start, wr.op, wr.model_type, wr.version_id,
                               max_versions, retention_days, now)

----------------------------------------------------------------------------
(* The state a successful save leaves *)

\* everything stored was written before time t
AllBefore(vd, md, t) ==
    /\ \A s \in DOMAIN vd : vd[s].mtime < t
    /\ \A s \in DOMAIN md : md[s] # Corrupt => md[s].created_at < t

Max(a, b) == IF a >= b THEN a ELSE b

\* C28: after a save_model that returned an id, made later than everything that
\* is stored, the pointer of the type names the new version, the new version is
\* the first entry of list_versions of the type, and at most
\* max(max_versions, 1) versions of the type are stored.
C28_AfterSave ==
    [][(/\ ret'.op = "save_model" /\ ret'.result = "ok"
        /\ AllBefore(versions_dir, metadata_dir, now)) =>
          LET t == ret'.model_type
              s == _get_model_path(t, ret'.version_id)
          IN /\ current'[t] = s
             /\ \A versions \in list_versions(versions_dir', metadata_dir', t) :
                   /\ versions # <<>>
                   /\ versions[1].version_id = ret'.version_id
                   /\ versions[1].model_path = s
             /\ Cardinality(OwnFiles(versions_dir', t)) <= Max(max_versions, 1)]_vars

----------------------------------------------------------------------------
(* The version a rollback made current, at the next save *)

\* C29: when rollback_model made v the current version of a type and the next
\* call is a save_model of the type that returns another id, the pointer is
\* moved before the sweep, so v is deleted by that sweep when it ranks beyond
\* max_versions among the versions of the type or was created before the
\* retention cutoff.
C29_ExemptionEnds ==
    [][(/\ ret.op = "rollback_model" /\ ret.result = "true"
        /\ ret'.op = "save_model" /\ ret'.result = "ok"
        /\ ret'.model_type = ret.model_type
        /\ ret'.version_id # ret.version_id) =>
          LET t == ret.model_type
              v == _get_model_path(t, ret.version_id)
              new == _get_model_path(t, ret'.version_id)
              vd1 == With(versions_dir, new, [content |-> "A1", mtime |-> now])
              md1 == With(metadata_dir, new, [created_at |-> now])
              cur1 == SwapPointer(current, t, new)
          IN /\ current[t] = v
             /\ v \in Marked(vd1, md1, cur1, t, max_versions, retention_days, now')
                   => v \notin DOMAIN versions_dir']_vars

----------------------------------------------------------------------------
(* Deletes of versions that are stored in part or not at all: every delete is
   logged with what it found *)

\* what delete_version(model_type, version_id) finds stored
Found(vd, md, cur, model_type, version_id) ==
    [model |-> _get_model_path(model_type, version_id) \in DOMAIN vd,
     metadata |-> _get_metadata_path(model_type, version_id) \in DOMAIN md,
     current |-> cur[model_type] = _get_model_path(model_type, version_id)]

DeleteSave ==
    /\ calls < MaxDeleteCalls /\ calls' = calls + 1
    /\ \E t \in ModelTypes, p \in Payloads, f \in SaveFaults :
          SaveModel(t, p.model, p.metadata, NoneDict, f, 0)
    /\ UNCHANGED <<Writer, seq>>

DeleteLogged ==
    /\ calls < MaxDeleteCalls /\ calls' = calls + 1
    /\ \E t \in ModelTypes, v \in CallerIds :
          /\ DeleteVersion(t, v)
          /\ seq' = Append(seq, Found(versions_dir, metadata_dir, current, t, v))
    /\ UNCHANGED Writer

DeleteTick == now < MaxTime /\ Tick /\ UNCHANGED <<Writer, seq, calls>>

NextDelete == DeleteSave \/ DeleteLogged \/ DeleteTick

SpecDelete == Init /\ [][NextDelete]_vars

\* C30: delete_version(t, id) returns True and leaves the stores and the
\* pointers as they are when neither the artifact file nor the metadata file of
\* (t, id) is stored; and when the artifact file is stored without a metadata
\* file and the pointer of t does not name it, delete_version returns True and
\* removes the artifact file and nothing else.
C30_DeletePartlyStored ==
    [][ret'.op = "delete_version" =>
          LET t == ret'.model_type
              s == _get_model_path(t, ret'.version_id)
              found == Found(versions_dir, metadata_dir, current, t, ret'.version_id)
          IN /\ (~found.model /\ ~found.metadata) =>
                   /\ ret'.result = "true"
                   /\ UNCHANGED <<versions_dir, metadata_dir, current>>
             /\ (found.model /\ ~found.metadata /\ ~found.current) =>
                   /\ ret'.result = "true"
                   /\ versions_dir' = Without(versions_dir, s)
                   /\ UNCHANGED <<metadata_dir, current>>]_vars

\* a delete_version has just returned True for a version that was stored as an
\* artifact without a metadata file, and the artifact is gone
C30_Witness ==
    /\ seq # <<>>
    /\ ret.op = "delete_version" /\ ret.result = "true"
    /\ seq[Len(seq)] = [model |-> TRUE, metadata |-> FALSE, current |-> FALSE]
    /\ _get_model_path(ret.model_type, ret.version_id) \notin DOMAIN versions_dir


====
